---- MODULE Spec2Model ----
(***************************************************************************)
(* The sparse voxel octree of du-blueprint: the generic container of       *)
(* src/src/svo.rs (construction, payload remap, pruning) and the JSON      *)
(* importer of src/src/import.rs (dense builder, level-of-detail stamps,   *)
(* ingestion).  The squarion module (RangeZYX, VoxelCellData, VertexGrid)  *)
(* is not part of the sources at hand; the few operations the octree calls *)
(* on it are modelled from the written specification.                      *)
(***************************************************************************)
EXTENDS Integers, Sequences, FiniteSets, TLC

VARIABLES
  pc,       \* position of the running scenario
  svo,      \* the Svo<T> value held by the caller (root + range)
  pre,      \* the Svo the last operation consumed or borrowed
  last,     \* the last operation and its arguments
  calls,    \* the calls the last operation made to its closure, in order
  written,  \* child-index paths of the nodes whose payload set_fn was applied to
  json,     \* the document being ingested
  idx       \* number of input records of the current ingestion loop consumed

vars == <<pc, svo, pre, last, calls, written, json, idx>>

(***************************************************************************)
(* Bounds of the model.                                                    *)
(***************************************************************************)
MaxOps == 2
MaxHeight == 6

(***************************************************************************)
(* squarion::RangeZYX, as far as the octree uses it.                       *)
(***************************************************************************)
VecRepeat(n) == <<n, n, n>>

WithExtent(origin, extent) == [origin |-> origin, size |-> VecRepeat(extent)]

SizeMin(range) ==
  LET s == range.size
      m == IF s[1] < s[2] THEN s[1] ELSE s[2]
  IN  IF m < s[3] THEN m ELSE s[3]

ContainsPoint(range, p) ==
  \A a \in 1..3 : /\ range.origin[a] <= p[a]
                  /\ p[a] < range.origin[a] + range.size[a]

\* Octant i (0-based, x fastest): the half-edge cube at the i-th corner.
Octant(range, i) ==
  LET hx == range.size[1] \div 2
      hy == range.size[2] \div 2
      hz == range.size[3] \div 2
  IN  [origin |-> <<range.origin[1] + (i % 2) * hx,
                    range.origin[2] + ((i \div 2) % 2) * hy,
                    range.origin[3] + ((i \div 4) % 2) * hz>>,
       size   |-> <<hx, hy, hz>>]

SplitAtCenter(range) ==
  <<Octant(range, 0), Octant(range, 1), Octant(range, 2), Octant(range, 3),
    Octant(range, 4), Octant(range, 5), Octant(range, 6), Octant(range, 7)>>

(***************************************************************************)
(* squarion::VoxelCellData behind Option<_>: the grid is the set of        *)
(* (position, value) entries written so far, one per position.             *)
(***************************************************************************)
NoneV == [some |-> FALSE, outer |-> WithExtent(<<0, 0, 0>>, 0),
          inner |-> WithExtent(<<0, 0, 0>>, 0),
          mapping |-> {}, mat |-> {}, off |-> {}]

\* VoxelCellData::new(VertexGrid::new(outer, inner), mapping), then the writes.
SomeCell(outer, inner, mapping, mat, off) ==
  [some |-> TRUE, outer |-> outer, inner |-> inner, mapping |-> mapping,
   mat |-> mat, off |-> off]

GridIsEmpty(cell) == cell.mat = {} /\ cell.off = {}

SetMaterialAtPosition(cell, p, material) ==
  [cell EXCEPT !.mat = {e \in @ : e[1] # p} \cup {<<p, material>>}]

SetVertexOffsetAtPosition(cell, p, offset) ==
  [cell EXCEPT !.off = {e \in @ : e[1] # p} \cup {<<p, offset>>}]

(***************************************************************************)
(* svo.rs: SvoNode<T> and Svo<T>.                                          *)
(***************************************************************************)
Leaf(v) == [tag |-> "Leaf", v |-> v, ch |-> <<>>]

Internal(v, children) == [tag |-> "Internal", v |-> v, ch |-> children]

NoNode == [tag |-> "Absent", v |-> NoneV, ch |-> <<>>]

Svo(root, range) == [root |-> root, range |-> range]

NoSvo == Svo(NoNode, WithExtent(<<0, 0, 0>>, 0))

SvoReturnLeaf(v) == [kind |-> "Leaf", v |-> v]

SvoReturnInternal(v) == [kind |-> "Internal", v |-> v]

RECURSIVE Pow2(_)
Pow2(n) == IF n = 0 THEN 1 ELSE 2 * Pow2(n - 1)

RECURSIVE IsPowerOfTwoFrom(_, _)
IsPowerOfTwoFrom(x, k) ==
  IF k > x THEN FALSE ELSE IF k = x THEN TRUE ELSE IsPowerOfTwoFrom(x, 2 * k)

\* Variant: only zero is rejected.
IsPowerOfTwo_NonZero(x) == x > 0

\* usize::is_power_of_two: false for 0.
IsPowerOfTwo(x) == x > 0 /\ IsPowerOfTwoFrom(x, 1)

(***************************************************************************)
(* The classifiers handed to Svo::from_fn: closures over a record cls.     *)
(* A closure sees only the range; Code is the parity of the range's        *)
(* position relative to the captured origin.                               *)
(***************************************************************************)
Code(cls, range) ==
  LET bit(a) == ((range.origin[a] - cls.base[a]) \div range.size[a]) % 2
  IN  bit(1) + 2 * bit(2) + 4 * bit(3)

Subdivides(cls, range) ==
  range.size[1] > cls.minEdge /\ Code(cls, range) \in cls.sub

EmptyCell(range) == SomeCell(range, range, {}, {}, {})

FullCell(range) == SomeCell(range, range, {}, {<<range.origin, 1>>}, {})

PayloadOf(cls, range) ==
  LET c == Code(cls, range)
      inner == Subdivides(cls, range)
  IN  CASE cls.pay = "none"   -> NoneV
        [] cls.pay = "empty"  -> EmptyCell(range)
        [] cls.pay = "full"   -> FullCell(range)
        [] cls.pay = "mixed"  -> IF c % 3 = 0 THEN NoneV
                                 ELSE IF c % 3 = 1 THEN EmptyCell(range)
                                 ELSE FullCell(range)
        [] cls.pay = "hollow" -> IF inner THEN FullCell(range)
                                 ELSE IF c % 2 = 0 THEN EmptyCell(range)
                                 ELSE NoneV
        [] cls.pay = "corner" -> IF c = 7 THEN FullCell(range) ELSE EmptyCell(range)
        [] cls.pay = "crown"  -> IF inner
                                 THEN (IF c = 7 THEN NoneV ELSE EmptyCell(range))
                                 ELSE (IF c % 2 = 1 THEN FullCell(range)
                                       ELSE EmptyCell(range))

Classify(cls, range) ==
  IF Subdivides(cls, range)
  THEN SvoReturnInternal(PayloadOf(cls, range))
  ELSE SvoReturnLeaf(PayloadOf(cls, range))

PayKinds == {"none", "empty", "full", "mixed", "hollow", "corner", "crown"}

SubSets == {{}, {0}, {0, 7}, {0, 3, 5}, 0..7}

MinEdges == {0, 1, 2}

Extents == {0, 1, 2, 3, 4, 8}

Origins == {<<0, 0, 0>>, <<-4, 0, 8>>}

Classifiers(origin) ==
  [base : {origin}, minEdge : MinEdges, sub : SubSets, pay : PayKinds]

(***************************************************************************)
(* svo.rs: SvoNode::from_fn and Svo::from_fn.  A failed assertion unwinds: *)
(* the result is marked not ok and nothing is built after it; calls is the *)
(* sequence of ranges the classifier was called with.                      *)
(***************************************************************************)
RECURSIVE NodeFromFn(_, _)
RECURSIVE ChildrenFromFn(_, _, _, _)

\* Variant: a Leaf verdict on a cube of edge 2 or more is subdivided all the same.
NodeFromFn_PastLeaf(range, cls) ==
  IF SizeMin(range) = 0
  THEN [ok |-> FALSE, node |-> NoNode, calls |-> <<>>]
  ELSE LET r == Classify(cls, range) IN
       IF r.kind = "Leaf" /\ range.size[1] < 2
       THEN [ok |-> TRUE, node |-> Leaf(r.v), calls |-> <<range>>]
       ELSE LET kids == ChildrenFromFn(SplitAtCenter(range), 1, cls,
                          [ok |-> TRUE, nodes |-> <<>>, calls |-> <<range>>])
            IN  [ok    |-> kids.ok,
                 node  |-> IF kids.ok THEN Internal(r.v, kids.nodes) ELSE NoNode,
                 calls |-> kids.calls]

NodeFromFn(range, cls) ==
  IF SizeMin(range) = 0
  THEN [ok |-> FALSE, node |-> NoNode, calls |-> <<>>]
  ELSE LET r == Classify(cls, range) IN
       IF r.kind = "Leaf"
       THEN [ok |-> TRUE, node |-> Leaf(r.v), calls |-> <<range>>]
       ELSE LET kids == ChildrenFromFn(SplitAtCenter(range), 1, cls,
                          [ok |-> TRUE, nodes |-> <<>>, calls |-> <<range>>])
            IN  [ok    |-> kids.ok,
                 node  |-> IF kids.ok THEN Internal(r.v, kids.nodes) ELSE NoNode,
                 calls |-> kids.calls]

ChildrenFromFn(octants, i, cls, acc) ==
  IF i > 8 \/ ~acc.ok THEN acc
  ELSE LET c == NodeFromFn(octants[i], cls) IN
       ChildrenFromFn(octants, i + 1, cls,
         [ok    |-> c.ok,
          nodes |-> IF c.ok THEN Append(acc.nodes, c.node) ELSE acc.nodes,
          calls |-> acc.calls \o c.calls])

SvoFromFn(origin, extent, cls) ==
  IF ~IsPowerOfTwo(extent)
  THEN [ok |-> FALSE, svo |-> NoSvo, calls |-> <<>>]
  ELSE LET range == WithExtent(origin, extent)
           r == NodeFromFn(range, cls)
       IN  [ok    |-> r.ok,
            svo   |-> IF r.ok THEN Svo(r.node, range) ELSE NoSvo,
            calls |-> r.calls]

(***************************************************************************)
(* svo.rs: SvoNode::into_cata and Svo::into_map.  The transforms f are     *)
(* closures named by a string; log is the sequence of payloads f was       *)
(* called with.                                                            *)
(***************************************************************************)
MapFns == {"clear", "mark", "wipe"}

ApplyFn(f, v) ==
  CASE f = "clear" -> NoneV
    [] f = "mark"  -> IF v.some THEN SetMaterialAtPosition(v, v.inner.origin, 2)
                      ELSE EmptyCell(WithExtent(<<0, 0, 0>>, 1))
    [] f = "wipe"  -> IF v.some THEN [v EXCEPT !.mat = {}, !.off = {}] ELSE v

\* Variant: the children are stored in reverse order.
MapCombine_Reversed(f, v, cs) ==
  IF cs.some
  THEN Internal(ApplyFn(f, v), [i \in 1..8 |-> cs.results[9 - i]])
  ELSE Leaf(ApplyFn(f, v))

\* The closure Svo::into_map hands to into_cata.
MapCombine(f, v, cs) ==
  IF cs.some THEN Internal(ApplyFn(f, v), cs.results) ELSE Leaf(ApplyFn(f, v))

RECURSIVE IntoCataMap(_, _, _)
RECURSIVE ChildrenIntoCataMap(_, _, _, _, _)

IntoCataMap(node, range, f) ==
  IF node.tag = "Leaf"
  THEN [node |-> MapCombine(f, node.v, [some |-> FALSE, results |-> <<>>]),
        log  |-> <<node.v>>]
  ELSE LET kids == ChildrenIntoCataMap(node.ch, SplitAtCenter(range), 1, f,
                     [results |-> <<>>, log |-> <<>>])
       IN  [node |-> MapCombine(f, node.v, [some |-> TRUE, results |-> kids.results]),
            log  |-> Append(kids.log, node.v)]

ChildrenIntoCataMap(children, octants, i, f, acc) ==
  IF i > 8 THEN acc
  ELSE LET c == IntoCataMap(children[i], octants[i], f) IN
       ChildrenIntoCataMap(children, octants, i + 1, f,
         [results |-> Append(acc.results, c.node), log |-> acc.log \o c.log])

SvoIntoMap(s, f) ==
  LET r == IntoCataMap(s.root, s.range, f)
  IN  [svo |-> Svo(r.node, s.range), log |-> r.log]

(***************************************************************************)
(* svo.rs: is_empty and prune_empty_grids on Option<VoxelCellData>.        *)
(***************************************************************************)
RECURSIVE NodeIsEmpty(_)
NodeIsEmpty(node) ==
  IF node.tag = "Leaf" /\ ~node.v.some THEN TRUE
  ELSE IF node.tag = "Internal" /\ ~node.v.some
       THEN \A i \in 1..8 : NodeIsEmpty(node.ch[i])
       ELSE FALSE

\* Variant: a Leaf keeps its payload whether or not the grid is empty.
PruneLeaf_Keep(node) == Leaf(node.v)

PruneLeaf(node) ==
  IF GridIsEmpty(node.v) THEN Leaf(NoneV) ELSE Leaf(node.v)

\* Variant: an Internal node whose children are all empty drops its payload
\* and keeps its children.
PruneInternal_KeepShell(v, prunedChildren) ==
  IF \A i \in 1..8 : NodeIsEmpty(prunedChildren[i])
  THEN Internal(NoneV, prunedChildren)
  ELSE Internal(v, prunedChildren)

\* Variant: an Internal node with a single surviving child is replaced by it.
PruneInternal_Hoist(v, prunedChildren) ==
  LET alive == {i \in 1..8 : ~NodeIsEmpty(prunedChildren[i])}
  IN  IF alive = {} THEN Leaf(NoneV)
      ELSE IF Cardinality(alive) = 1
      THEN prunedChildren[CHOOSE i \in alive : TRUE]
      ELSE Internal(v, prunedChildren)

PruneInternal(v, prunedChildren) ==
  IF \A i \in 1..8 : NodeIsEmpty(prunedChildren[i])
  THEN Leaf(NoneV)
  ELSE Internal(v, prunedChildren)

RECURSIVE NodePruneEmptyGrids(_)
NodePruneEmptyGrids(node) ==
  IF node.tag = "Leaf" /\ node.v.some THEN PruneLeaf(node)
  ELSE IF node.tag = "Internal" /\ node.v.some
       THEN LET P(i) == NodePruneEmptyGrids(node.ch[i])
            IN  PruneInternal(node.v, <<P(1), P(2), P(3), P(4), P(5), P(6), P(7), P(8)>>)
       ELSE Leaf(NoneV)

SvoPruneEmptyGrids(s) == Svo(NodePruneEmptyGrids(s.root), s.range)

(***************************************************************************)
(* import.rs: create_empty_lods and its build_svo_node.                    *)
(***************************************************************************)
LeafSize == 32

OuterExtent == 35

DebugMaterialId == 157903047

\* Variant: the core has the edge of height 5 whatever the height.
CoreSize_Fixed(height) == 128

CoreSize(height) == 128 * Pow2(height - 5)

FreshCell(range, leafSize, material) ==
  SomeCell(WithExtent(<<range.origin[1] - 1, range.origin[2] - 1, range.origin[3] - 1>>,
                      OuterExtent),
           WithExtent(range.origin, leafSize),
           {<<1, DebugMaterialId>>, <<2, material>>}, {}, {})

IsLeafLevel(range, leafSize, depth, maxDepth) ==
  range.size[1] <= leafSize \/ depth >= maxDepth

RECURSIVE BuildSvoNode(_, _, _, _, _)
BuildSvoNode(range, leafSize, depth, maxDepth, material) ==
  IF IsLeafLevel(range, leafSize, depth, maxDepth)
  THEN Leaf(FreshCell(range, leafSize, material))
  ELSE LET B(i) == BuildSvoNode(Octant(range, i - 1), leafSize, depth + 1,
                                maxDepth, material)
       IN  Internal(FreshCell(range, leafSize, material),
                    <<B(1), B(2), B(3), B(4), B(5), B(6), B(7), B(8)>>)

CreateEmptyLods(origin, height, material) ==
  LET rootRange == WithExtent(origin, CoreSize(height))
  IN  Svo(BuildSvoNode(rootRange, LeafSize, 0, height - 3, material), rootRange)

(***************************************************************************)
(* import.rs: set_at_all_lods and its traverse_svo.  The result carries    *)
(* the node after the call, the paths of the nodes set_fn was applied to,  *)
(* the scale factor of every node whose padded range held the sample (the  *)
(* nodes at which the remainder is taken), and ok = FALSE when the call    *)
(* panicked (remainder by a zero scale factor); a panic stops the          *)
(* traversal where it happens.                                             *)
(***************************************************************************)
DefaultOffset == <<126, 126, 126>>

\* Variant: the origin is moved back but the size grows by one padding only.
PaddedRange_NoGrow(range, padding) ==
  [origin |-> <<range.origin[1] - padding, range.origin[2] - padding,
                range.origin[3] - padding>>,
   size   |-> <<range.size[1] + padding, range.size[2] + padding,
                range.size[3] + padding>>]

PaddedRange(range, padding) ==
  [origin |-> <<range.origin[1] - padding, range.origin[2] - padding,
                range.origin[3] - padding>>,
   size   |-> <<range.size[1] + 2 * padding, range.size[2] + 2 * padding,
                range.size[3] + 2 * padding>>]

\* coord % scale_factor == 0 on every component (scale_factor > 0).
WithinLod(p, scaleFactor) == \A a \in 1..3 : p[a] % scaleFactor = 0

Corners(p) ==
  {<<p[1] - dx, p[2] - dy, p[3] - dz>> : dx \in 0..1, dy \in 0..1, dz \in 0..1}

RECURSIVE SetDefaultOffsets(_, _)
SetDefaultOffsets(cell, corners) ==
  IF corners = {} THEN cell
  ELSE LET c == CHOOSE x \in corners : TRUE
       IN  SetDefaultOffsets(SetVertexOffsetAtPosition(cell, c, DefaultOffset),
                             corners \ {c})

\* Variant: an offset is written only where the grid holds none yet.
SetFn_KeepExisting(op, cell, p, scaleFactor) ==
  IF op.kind = "material"
  THEN SetDefaultOffsets(SetMaterialAtPosition(cell, p, op.value), Corners(p))
  ELSE IF \E e \in cell.off : e[1] = p THEN cell
  ELSE SetVertexOffsetAtPosition(cell, p, op.value)

\* The two closures handed to set_at_all_lods.
SetFn(op, cell, p, scaleFactor) ==
  IF op.kind = "material"
  THEN SetDefaultOffsets(SetMaterialAtPosition(cell, p, op.value), Corners(p))
  ELSE SetVertexOffsetAtPosition(cell, p, op.value)

\* Variant: only the payload of a Leaf is written.
ApplySet_LeafOnly(node, within, op, p, scaleFactor) ==
  IF within /\ node.v.some /\ node.tag = "Leaf"
  THEN [node EXCEPT !.v = SetFn(op, @, p, scaleFactor)]
  ELSE node

\* Variant: a node without payload is given a fresh one, which is written.
ApplySet_Create(node, within, op, p, scaleFactor) ==
  IF within
  THEN [node EXCEPT !.v = SetFn(op, IF @.some THEN @ ELSE EmptyCell(WithExtent(p, 1)),
                                p, scaleFactor)]
  ELSE node

\* The match on the node of traverse_svo: only a present payload is written.
ApplySet(node, within, op, p, scaleFactor) ==
  IF within /\ node.v.some
  THEN [node EXCEPT !.v = SetFn(op, @, p, scaleFactor)]
  ELSE node

\* Variant: the scale factor is handed down unchanged.
NextScaleFactor_Same(scaleFactor) == scaleFactor

NextScaleFactor(scaleFactor) == scaleFactor \div 2

RECURSIVE TraverseSvo(_, _, _, _, _, _)
RECURSIVE TraverseChildren(_, _, _, _, _, _, _)

TraverseSvo(node, range, p, scaleFactor, op, path) ==
  IF ~ContainsPoint(PaddedRange(range, scaleFactor), p)
  THEN [node |-> node, hits |-> {}, scales |-> {}, ok |-> TRUE]
  ELSE IF scaleFactor = 0
  THEN [node |-> node, hits |-> {}, scales |-> {<<path, scaleFactor>>}, ok |-> FALSE]
  ELSE LET within == WithinLod(p, scaleFactor)
           n1 == ApplySet(node, within, op, p, scaleFactor)
           h1 == IF within /\ node.v.some THEN {path} ELSE {}
           s1 == {<<path, scaleFactor>>}
       IN  IF node.tag = "Internal"
           THEN LET kids == TraverseChildren(n1.ch, SplitAtCenter(range), 1, p,
                              NextScaleFactor(scaleFactor), op,
                              [path |-> path, hits |-> h1, scales |-> s1, ok |-> TRUE])
                IN  [node |-> [n1 EXCEPT !.ch = kids.ch],
                     hits |-> kids.acc.hits, scales |-> kids.acc.scales,
                     ok |-> kids.acc.ok]
           ELSE [node |-> n1, hits |-> h1, scales |-> s1, ok |-> TRUE]

TraverseChildren(children, octants, i, p, scaleFactor, op, acc) ==
  IF i > 8 \/ ~acc.ok THEN [ch |-> children, acc |-> acc]
  ELSE LET c == TraverseSvo(children[i], octants[i], p, scaleFactor, op,
                            Append(acc.path, i - 1))
       IN  TraverseChildren([children EXCEPT ![i] = c.node], octants, i + 1, p,
             scaleFactor, op,
             [path |-> acc.path, hits |-> acc.hits \cup c.hits,
              scales |-> acc.scales \cup c.scales, ok |-> c.ok])

SetAtAllLods(s, p, scaleFactor, op) ==
  LET r == TraverseSvo(s.root, s.range, p, scaleFactor, op, <<>>)
  IN  [svo |-> Svo(r.node, s.range), hits |-> r.hits, scales |-> r.scales, ok |-> r.ok]

InitialScaleFactor(height) == Pow2(height - 3)

SetMaterialAtAllLods(s, p, material, height) ==
  SetAtAllLods(s, p, InitialScaleFactor(height),
               [kind |-> "material", value |-> material])

SetVertexOffsetAtAllLods(s, p, offset, height) ==
  SetAtAllLods(s, p, InitialScaleFactor(height),
               [kind |-> "offset", value |-> offset])

(***************************************************************************)
(* Addressing of nodes by child-index path (0-based indices, root = <<>>). *)
(***************************************************************************)
RECURSIVE Paths(_)
Paths(node) ==
  IF node.tag = "Internal"
  THEN {<<>>} \cup UNION {{<<i - 1>> \o q : q \in Paths(node.ch[i])} : i \in 1..Len(node.ch)}
  ELSE {<<>>}

RECURSIVE NodeAt(_, _)
NodeAt(node, path) ==
  IF path = <<>> THEN node ELSE NodeAt(node.ch[Head(path) + 1], Tail(path))

RECURSIVE RangeAt(_, _)
RangeAt(range, path) ==
  IF path = <<>> THEN range ELSE RangeAt(Octant(range, Head(path)), Tail(path))

SamePayloadAndTag(a, b) == a.tag = b.tag /\ a.v = b.v

(***************************************************************************)
(* Scenario "tree": build with Svo::from_fn, then remap and prune.         *)
(***************************************************************************)
NoJson == [positions |-> <<>>, vertices |-> <<>>, height |-> 0]

Init ==
  /\ pc = "start"
  /\ svo = NoSvo
  /\ pre = NoSvo
  /\ last = [op |-> "none"]
  /\ calls = <<>>
  /\ written = {}
  /\ json = NoJson
  /\ idx = 0

FromFn(origin, extent, cls) ==
  /\ pc = "start"
  /\ LET r == SvoFromFn(origin, extent, cls) IN
       /\ pc' = IF r.ok THEN "tree" ELSE "abort"
       /\ svo' = r.svo
       /\ calls' = r.calls
  /\ last' = [op |-> "from_fn", origin |-> origin, extent |-> extent, cls |-> cls, n |-> 1]
  /\ UNCHANGED <<pre, written, json, idx>>

IntoMap(f) ==
  /\ pc = "tree"
  /\ last.n <= MaxOps
  /\ LET r == SvoIntoMap(svo, f) IN
       /\ svo' = r.svo
       /\ calls' = r.log
  /\ pre' = svo
  /\ last' = [op |-> "into_map", f |-> f, n |-> last.n + 1]
  /\ UNCHANGED <<pc, written, json, idx>>

PruneEmptyGrids ==
  /\ pc = "tree"
  /\ last.n <= MaxOps
  /\ svo' = SvoPruneEmptyGrids(svo)
  /\ pre' = svo
  /\ last' = [op |-> "prune", n |-> last.n + 1]
  /\ calls' = <<>>
  /\ UNCHANGED <<pc, written, json, idx>>

NextTree ==
  \/ \E origin \in Origins, extent \in Extents :
       \E cls \in Classifiers(origin) : FromFn(origin, extent, cls)
  \/ \E f \in MapFns : IntoMap(f)
  \/ PruneEmptyGrids

SpecTree == Init /\ [][NextTree]_vars

(***************************************************************************)
(* Scenario "lods": build the dense tree, then one stamp.                  *)
(***************************************************************************)
MinHeight == 5

Heights == MinHeight..MaxHeight

Coords == {-4, -1, 0, 33, 62, 64, 128}

Samples == {<<x, y, z>> : x \in Coords, y \in Coords, z \in Coords}

LodOrigins == {<<0, 0, 0>>, <<-64, 0, 32>>}

Materials == {2}

Offsets == {<<10, 126, 250>>}

CoreMaterial == 1971262921

BuildLods(origin, height) ==
  /\ pc = "start"
  /\ svo' = CreateEmptyLods(origin, height, CoreMaterial)
  /\ pc' = "lods"
  /\ last' = [op |-> "create_empty_lods", origin |-> origin, height |-> height]
  /\ UNCHANGED <<pre, calls, written, json, idx>>

StampMaterial(p, material, height) ==
  /\ pc = "lods"
  /\ LET r == SetMaterialAtAllLods(svo, p, material, height) IN
       /\ svo' = r.svo
       /\ written' = r.hits
       /\ pc' = IF r.ok THEN "stamped" ELSE "abort"
       /\ last' = [op |-> "set_material", p |-> p, value |-> material,
                   height |-> height, built |-> last.height, scales |-> r.scales]
  /\ pre' = svo
  /\ UNCHANGED <<calls, json, idx>>

StampOffset(p, offset, height) ==
  /\ pc = "lods"
  /\ LET r == SetVertexOffsetAtAllLods(svo, p, offset, height) IN
       /\ svo' = r.svo
       /\ written' = r.hits
       /\ pc' = IF r.ok THEN "stamped" ELSE "abort"
       /\ last' = [op |-> "set_vertex_offset", p |-> p, value |-> offset,
                   height |-> height, built |-> last.height, scales |-> r.scales]
  /\ pre' = svo
  /\ UNCHANGED <<calls, json, idx>>

NextLods ==
  \/ \E origin \in LodOrigins, height \in Heights : BuildLods(origin, height)
  \/ \E p \in Samples, m \in Materials, height \in Heights : StampMaterial(p, m, height)
  \/ \E p \in Samples, o \in Offsets, height \in Heights : StampOffset(p, o, height)

SpecLods == Init /\ [][NextLods]_vars

(***************************************************************************)
(* Scenario "stamps": a tree of Svo::from_fn, some of whose nodes carry no *)
(* payload, then a sequence of stamps.  pre keeps the tree the sequence    *)
(* started from.                                                           *)
(***************************************************************************)
StampTrees ==
  [origin : {<<0, 0, 0>>}, extent : {4, 8}, minEdge : {1, 2},
   sub : {{0, 7}, {0, 3, 5}}, pay : {"mixed", "crown"}]

StampSamples == {<<0, 0, 0>>, <<-1, 0, 2>>, <<2, 6, 4>>, <<7, 7, 3>>}

StampHeights == {MinHeight, MinHeight + 1}

BuildStampTree(t) ==
  FromFn(t.origin, t.extent,
         [base |-> t.origin, minEdge |-> t.minEdge, sub |-> t.sub, pay |-> t.pay])

SeqStampMaterial(p, material, height) ==
  /\ pc = "tree"
  /\ last.n <= MaxOps
  /\ LET r == SetMaterialAtAllLods(svo, p, material, height) IN
       /\ svo' = r.svo
       /\ written' = r.hits
       /\ pc' = IF r.ok THEN "tree" ELSE "abort"
  /\ pre' = IF last.op = "from_fn" THEN svo ELSE pre
  /\ last' = [op |-> "set_material", p |-> p, value |-> material,
              height |-> height, n |-> last.n + 1]
  /\ UNCHANGED <<calls, json, idx>>

SeqStampOffset(p, offset, height) ==
  /\ pc = "tree"
  /\ last.n <= MaxOps
  /\ LET r == SetVertexOffsetAtAllLods(svo, p, offset, height) IN
       /\ svo' = r.svo
       /\ written' = r.hits
       /\ pc' = IF r.ok THEN "tree" ELSE "abort"
  /\ pre' = IF last.op = "from_fn" THEN svo ELSE pre
  /\ last' = [op |-> "set_vertex_offset", p |-> p, value |-> offset,
              height |-> height, n |-> last.n + 1]
  /\ UNCHANGED <<calls, json, idx>>

NextStamps ==
  \/ \E t \in StampTrees : BuildStampTree(t)
  \/ \E p \in StampSamples, m \in Materials, height \in StampHeights :
       SeqStampMaterial(p, m, height)
  \/ \E p \in StampSamples, o \in Offsets, height \in StampHeights :
       SeqStampOffset(p, o, height)

SpecStamps == Init /\ [][NextStamps]_vars

(***************************************************************************)
(* import.rs: process_json_and_create_svo.  The numbers of the document    *)
(* are multiples of 1/2, held as their count of halves (3 stands for 1.5), *)
(* so that x + 0.5, f64::round and the casts are exact.                    *)
(***************************************************************************)
AddHalf(h) == h + 1

\* Variant: f64 to i32 without rounding first (the cast truncates).
F64Round_Trunc(h) == IF h >= 0 THEN h \div 2 ELSE -((-h) \div 2)

\* f64::round (half away from zero) of h/2, as an integer.
F64Round(h) ==
  IF h % 2 = 0 THEN h \div 2
  ELSE IF h > 0 THEN (h + 1) \div 2 ELSE -((1 - h) \div 2)

\* `as i32` on a f64: truncation toward zero.
F64AsI32(h) == IF h >= 0 THEN h \div 2 ELSE -((-h) \div 2)

\* `as u8` on a f64: truncation, saturating at 0 and 255.
F64AsU8(h) ==
  LET t == F64AsI32(h) IN IF t < 0 THEN 0 ELSE IF t > 255 THEN 255 ELSE t

PositionToLattice(pos) ==
  <<F64Round(AddHalf(pos[1])), F64Round(AddHalf(pos[2])), F64Round(AddHalf(pos[3]))>>

VertexToLattice(vert) == <<F64AsI32(vert[1]), F64AsI32(vert[2]), F64AsI32(vert[3])>>

VertexToOffset(vert) == <<F64AsU8(vert[4]), F64AsU8(vert[5]), F64AsU8(vert[6])>>

\* i32 division truncates toward zero.
I32Div(a, b) == IF a >= 0 THEN a \div b ELSE -((-a) \div b)

RescaleFactor == 32

RescaleRange(range) ==
  [origin |-> <<I32Div(range.origin[1], RescaleFactor),
                I32Div(range.origin[2], RescaleFactor),
                I32Div(range.origin[3], RescaleFactor)>>,
   size   |-> <<I32Div(range.size[1], RescaleFactor),
                I32Div(range.size[2], RescaleFactor),
                I32Div(range.size[3], RescaleFactor)>>]

IngestMaterial == 2

(***************************************************************************)
(* Scenario "ingest": process_json_and_create_svo on a document, one loop  *)
(* iteration a step.  calls is the sequence of the calls made on the tree. *)
(***************************************************************************)
MaxPositions == 2

MaxVertices == 2

PositionInputs ==
  {<<2, 1, -1>>, <<0, -2, 63>>, <<-9, -1, -1>>, <<-3, 3, 255>>}

VertexInputs ==
  {<<2, 0, -2, 20, 252, 520>>, <<3, 1, -3, -2, 1, 253>>, <<-8, 0, 1, 2, 4, 6>>}

IngestHeights == {MinHeight}

SeqsUpTo(S, n) == UNION {[1..k -> S] : k \in 0..n}

Documents ==
  [positions : SeqsUpTo(PositionInputs, MaxPositions),
   vertices  : SeqsUpTo(VertexInputs, MaxVertices),
   height    : IngestHeights]

IngestBegin(doc) ==
  /\ pc = "start"
  /\ json' = doc
  /\ svo' = CreateEmptyLods(<<0, 0, 0>>, doc.height, CoreMaterial)
  /\ pc' = "positions"
  /\ idx' = 0
  /\ last' = [op |-> "create_empty_lods", origin |-> <<0, 0, 0>>, height |-> doc.height]
  /\ calls' = <<>>
  /\ UNCHANGED <<pre, written>>

IngestPosition ==
  /\ pc = "positions"
  /\ idx < Len(json.positions)
  /\ LET pos == json.positions[idx + 1]
         globalPosition == PositionToLattice(pos)
         r == SetMaterialAtAllLods(svo, globalPosition, IngestMaterial, json.height)
     IN  /\ svo' = r.svo
         /\ written' = r.hits
         /\ pc' = IF r.ok THEN "positions" ELSE "abort"
         /\ last' = [op |-> "ingest_position", raw |-> pos, p |-> globalPosition,
                     value |-> IngestMaterial, height |-> json.height]
         /\ calls' = Append(calls, [kind |-> "material", p |-> globalPosition,
                                    value |-> IngestMaterial])
  /\ pre' = svo
  /\ idx' = idx + 1
  /\ UNCHANGED json

IngestPositionsDone ==
  /\ pc = "positions"
  /\ idx = Len(json.positions)
  /\ pc' = "vertices"
  /\ idx' = 0
  /\ UNCHANGED <<svo, pre, last, calls, written, json>>

IngestVertex ==
  /\ pc = "vertices"
  /\ idx < Len(json.vertices)
  /\ LET vert == json.vertices[idx + 1]
         globalPosition == VertexToLattice(vert)
         offset == VertexToOffset(vert)
         r == SetVertexOffsetAtAllLods(svo, globalPosition, offset, json.height)
     IN  /\ svo' = r.svo
         /\ written' = r.hits
         /\ pc' = IF r.ok THEN "vertices" ELSE "abort"
         /\ last' = [op |-> "ingest_vertex", raw |-> vert, p |-> globalPosition,
                     value |-> offset, height |-> json.height]
         /\ calls' = Append(calls, [kind |-> "offset", p |-> globalPosition,
                                    value |-> offset])
  /\ pre' = svo
  /\ idx' = idx + 1
  /\ UNCHANGED json

IngestFinish ==
  /\ pc = "vertices"
  /\ idx = Len(json.vertices)
  /\ svo' = SvoPruneEmptyGrids(Svo(svo.root, RescaleRange(svo.range)))
  /\ pre' = svo
  /\ pc' = "done"
  /\ last' = [op |-> "ingest_finish"]
  /\ calls' = calls \o <<[kind |-> "rescale"], [kind |-> "prune"]>>
  /\ UNCHANGED <<written, json, idx>>

NextIngest ==
  \/ \E doc \in Documents : IngestBegin(doc)
  \/ IngestPosition
  \/ IngestPositionsDone
  \/ IngestVertex
  \/ IngestFinish

SpecIngest == Init /\ [][NextIngest]_vars

(***************************************************************************)
(* Properties of the "tree" scenario.                                      *)
(***************************************************************************)
IsEmptyMarker(node) == node.tag = "Leaf" /\ ~node.v.some /\ node.ch = <<>>

Built == pc = "tree" /\ last.op = "from_fn"

Pruned == pc = "tree" /\ last.op = "prune"

Mapped == pc = "tree" /\ last.op = "into_map"

\* C2: pruning is idempotent: pruning the tree a pruning returned gives back
\* the identical tree (tags, payloads, children and root range).
C2_PruneIdempotent == Pruned => SvoPruneEmptyGrids(svo) = svo

\* A pruning that removed something and kept an Internal node with both
\* surviving and collapsed children.
C2_Witness ==
  /\ Pruned
  /\ svo # pre
  /\ svo.root.tag = "Internal"
  /\ \E i, j \in 1..8 : /\ IsEmptyMarker(svo.root.ch[i])
                        /\ svo.root.ch[j].tag = "Internal"

\* C3: every Internal node of a pruned tree was an Internal node with the same
\* payload at the same path of the input and still has 8 children; every
\* node of the output sits at a path of the input and is either the input's
\* node (same tag and payload) or an empty-marker Leaf.
C3_PruneKeepsSurvivors ==
  Pruned =>
    \A q \in Paths(svo.root) :
      /\ q \in Paths(pre.root)
      /\ LET o == NodeAt(svo.root, q)
             n == NodeAt(pre.root, q)
         IN  /\ o.tag = "Internal" =>
                  n.tag = "Internal" /\ n.v = o.v /\ Len(o.ch) = 8
             /\ IsEmptyMarker(o) \/ SamePayloadAndTag(o, n)
             /\ o.tag = "Leaf" => o.ch = <<>>

\* A pruning that kept an Internal node below the root and replaced an
\* Internal subtree of the input by an empty marker.
C3_Witness ==
  /\ Pruned
  /\ \E q \in Paths(svo.root) : Len(q) >= 1 /\ NodeAt(svo.root, q).tag = "Internal"
  /\ \E q \in Paths(svo.root) :
       IsEmptyMarker(NodeAt(svo.root, q)) /\ NodeAt(pre.root, q).tag = "Internal"

AllLeavesEmpty(node) ==
  \A q \in Paths(node) :
    LET n == NodeAt(node, q)
    IN  n.tag = "Leaf" => (~n.v.some \/ (n.v.mat = {} /\ n.v.off = {}))

\* C4: a tree whose every Leaf has no payload or a payload with an empty grid
\* is pruned to a single empty-marker root, whatever its Internal payloads.
C4_AllEmptyCollapses ==
  (Pruned /\ AllLeavesEmpty(pre.root)) => IsEmptyMarker(svo.root)

\* Such a tree two levels deep, with an Internal payload whose grid is not
\* empty, has been pruned.
C4_Witness ==
  /\ Pruned
  /\ AllLeavesEmpty(pre.root)
  /\ \E q \in Paths(pre.root) :
       /\ Len(q) = 2
       /\ LET n == NodeAt(pre.root, <<q[1]>>)
          IN  n.tag = "Internal" /\ n.v.some /\ n.v.mat # {}
  /\ \E q \in Paths(pre.root) :
       LET n == NodeAt(pre.root, q) IN n.tag = "Leaf" /\ n.v.some

\* C5: into_map keeps the root range and the shape: the same paths, the same
\* tag at each path, 8 children at each Internal node, and at each path the
\* payload is f of the input's payload at that path; f is called once a node.
C5_MapKeepsShape ==
  Mapped =>
    /\ svo.range = pre.range
    /\ Paths(svo.root) = Paths(pre.root)
    /\ \A q \in Paths(pre.root) :
         LET o == NodeAt(svo.root, q)
             n == NodeAt(pre.root, q)
         IN  /\ o.tag = n.tag
             /\ o.tag = "Internal" => Len(o.ch) = 8
             /\ o.tag = "Leaf" => o.ch = <<>>
             /\ o.v = ApplyFn(last.f, n.v)
    /\ Len(calls) = Cardinality(Paths(pre.root))

\* A remap of a tree two levels deep whose children carry different payloads.
C5_Witness ==
  /\ Mapped
  /\ \E q \in Paths(pre.root) : Len(q) = 2
  /\ \E i, j \in 1..8 : NodeAt(svo.root, <<i - 1>>).v # NodeAt(svo.root, <<j - 1>>).v
  /\ svo # pre

PowersOfTwo == {1, 2, 4, 8, 16, 32, 64, 128, 256, 512, 1024}

\* C6: in a tree Svo::from_fn returned, the node at depth d has the cube of
\* edge extent / 2^d, a power of two >= 1; its tag and payload are the
\* classifier's verdict on that cube (Leaf: no children, Internal: 8
\* children, one per octant); the classifier was called once per node.
C6_BuildShape ==
  Built =>
    /\ svo.range = WithExtent(last.origin, last.extent)
    /\ \A q \in Paths(svo.root) :
         LET n == NodeAt(svo.root, q)
             r == RangeAt(svo.range, q)
             e == r.size[1]
             v == Classify(last.cls, r)
         IN  /\ r.size = <<e, e, e>>
             /\ e \in PowersOfTwo
             /\ e * Pow2(Len(q)) = last.extent
             /\ n.tag = v.kind /\ n.v = v.v
             /\ v.kind = "Leaf" => n.ch = <<>>
             /\ v.kind = "Internal" => Len(n.ch) = 8
    /\ Len(calls) = Cardinality(Paths(svo.root))
    /\ {calls[k] : k \in 1..Len(calls)} = {RangeAt(svo.range, q) : q \in Paths(svo.root)}

\* A built tree with Leaf and Internal nodes at depth 1 and nodes of edge 1.
C6_Witness ==
  /\ Built
  /\ svo.root.tag = "Internal"
  /\ \E i, j \in 1..8 : /\ svo.root.ch[i].tag = "Leaf"
                        /\ svo.root.ch[j].tag = "Internal"
  /\ \E q \in Paths(svo.root) : RangeAt(svo.range, q).size[1] = 1

\* C9: Svo::from_fn with an extent that is zero or no power of two aborts
\* before any call of the classifier and returns no tree.
C9_BadExtentAborts ==
  (last.op = "from_fn" /\ last.extent \notin PowersOfTwo) =>
    pc = "abort" /\ svo = NoSvo /\ calls = <<>>

\* The abort for an extent that is not zero and no power of two.
C9_Witness ==
  last.op = "from_fn" /\ last.extent = 3 /\ pc = "abort" /\ calls = <<>>

(***************************************************************************)
(* Properties of the "lods" scenario.                                      *)
(***************************************************************************)
IsStamp == last.op \in {"set_material", "set_vertex_offset"}

\* The scale the stamp of height h uses at depth d: 2^(h-3) / 2^d.
ScaleAt(h, d) == Pow2(h - 3) \div Pow2(d)

\* x is a multiple of s (of 0, only 0 is).
Divisible(x, s) == IF s = 0 THEN x = 0 ELSE x % s = 0

Aligned(p, s) == \A a \in 1..3 : Divisible(p[a], s)

\* p lies in the range expanded by s on every side.
InExpanded(range, s, p) ==
  \A a \in 1..3 : /\ range.origin[a] - s <= p[a]
                  /\ p[a] < range.origin[a] + range.size[a] + s

InRange(range, p) == InExpanded(range, 0, p)

\* The paths of the nodes the two conditions name, among the nodes whose
\* scale is at least least: aligned to the scale of their depth and inside
\* their own range expanded by that scale.
RECURSIVE QualifyingFrom(_, _, _, _, _, _)
QualifyingFrom(node, range, path, p, h, least) ==
  LET sd == ScaleAt(h, Len(path)) IN
  (IF sd >= least /\ Aligned(p, sd) /\ InExpanded(range, sd, p) THEN {path} ELSE {})
  \cup
  (IF node.tag = "Internal"
   THEN UNION {QualifyingFrom(node.ch[i], Octant(range, i - 1),
                              Append(path, i - 1), p, h, least) : i \in 1..8}
   ELSE {})

Qualifying(s, p, h, least) == QualifyingFrom(s.root, s.range, <<>>, p, h, least)

SetMax(S) == CHOOSE x \in S : \A y \in S : y <= x

RECURSIVE Depth(_)
Depth(node) ==
  IF node.tag = "Internal"
  THEN 1 + SetMax({Depth(node.ch[i]) : i \in 1..8})
  ELSE 0

AllScalesPositive(s, h) == ScaleAt(h, Depth(s.root)) >= 1

\* C1 as stated: in any propagation call, a node (all carry a payload) is
\* written iff the sample is aligned to the scale of its depth and inside
\* its range expanded by that scale.
C1_WrittenIffQualifying ==
  IsStamp => written = Qualifying(pre, last.p, last.height, 0)

\* C1, amended: a call in which the scale is at least 1 at every node completes,
\* and in every call that completes the nodes written are exactly the nodes
\* of scale >= 1 that the two conditions name.
C1_WrittenIffQualifyingWhenScaled ==
  IsStamp =>
    /\ AllScalesPositive(pre, last.height) => pc = "stamped"
    /\ pc = "stamped" => written = Qualifying(pre, last.p, last.height, 1)

\* A completed call that wrote a leaf none of whose ancestors was written,
\* and left a node unwritten whose parent was written.
C1_Witness ==
  /\ IsStamp /\ pc = "stamped"
  /\ AllScalesPositive(pre, last.height)
  /\ \E q \in written :
       /\ Len(q) >= 2
       /\ \A k \in 0..(Len(q) - 1) : SubSeq(q, 1, k) \notin written
  /\ \E q \in Paths(svo.root) :
       Len(q) >= 1 /\ q \notin written /\ SubSeq(q, 1, Len(q) - 1) \in written

\* Every node whose range holds p records the material at p.
RECURSIVE RecordedDown(_, _, _, _)
RecordedDown(node, range, p, material) ==
  /\ InRange(range, p) => <<p, material>> \in node.v.mat
  /\ node.tag = "Internal" =>
       \A i \in 1..8 : RecordedDown(node.ch[i], Octant(range, i - 1), p, material)

\* The leaves whose range holds p, by path.
RECURSIVE LeavesHolding(_, _, _, _)
LeavesHolding(node, range, path, p) ==
  IF node.tag = "Internal"
  THEN UNION {LeavesHolding(node.ch[i], Octant(range, i - 1), Append(path, i - 1), p) :
                i \in 1..8}
  ELSE IF InRange(range, p) THEN {path} ELSE {}

\* C7: a material stamp of the height the tree was built with, at a sample of
\* the root range whose components are multiples of 2^(H-3), records the
\* material at the sample in the root, in the leaf whose range holds the
\* sample, and in every node between them.
C7_RootAndLeafRecord ==
  ( /\ last.op = "set_material"
    /\ last.height = last.built
    /\ pre.range.origin = <<0, 0, 0>>
    /\ InRange(pre.range, last.p)
    /\ Aligned(last.p, Pow2(last.height - 3)) )
  => /\ pc = "stamped"
     /\ <<last.p, last.value>> \in svo.root.v.mat
     /\ RecordedDown(svo.root, svo.range, last.p, last.value)
     /\ \E l \in LeavesHolding(svo.root, svo.range, <<>>, last.p) :
          <<last.p, last.value>> \in NodeAt(svo.root, l).v.mat

\* The stamp at the centre of the tree of height 5: the root and the leaf
\* at depth 2 that holds the centre both record it.
C7_Witness ==
  /\ last.op = "set_material" /\ last.height = 5 /\ last.built = 5
  /\ last.p = <<64, 64, 64>>
  /\ <<last.p, last.value>> \in svo.root.v.mat
  /\ \E l \in LeavesHolding(svo.root, svo.range, <<>>, last.p) :
       Len(l) = 2 /\ <<last.p, last.value>> \in NodeAt(svo.root, l).v.mat

\* p is on the face across axis a between range ra (low side) and rb.
OnFace(ra, rb, a, p) ==
  /\ ra.origin[a] + ra.size[a] = rb.origin[a]
  /\ p[a] = rb.origin[a]
  /\ \A c \in (1..3) \ {a} : ra.origin[c] = rb.origin[c]
  /\ \A c \in (1..3) \ {a} :
       /\ ra.origin[c] <= p[c] /\ p[c] < ra.origin[c] + ra.size[c]
       /\ rb.origin[c] <= p[c] /\ p[c] < rb.origin[c] + rb.size[c]

\* The pairs of siblings (children i and j of the node at parent, 0-based)
\* whose shared face, across axis a, the sample is on.  Such a face lies in
\* the range of the parent, so only the nodes whose range holds the sample
\* are looked at.
RECURSIVE FacesFrom(_, _, _, _)
FacesFrom(node, range, path, p) ==
  IF node.tag = "Internal" /\ InRange(range, p)
  THEN {[parent |-> path, i |-> f[1], j |-> f[2], a |-> f[3]] :
          f \in {f \in (0..7) \X (0..7) \X (1..3) :
                   f[1] # f[2] /\ OnFace(Octant(range, f[1]), Octant(range, f[2]), f[3], p)}}
       \cup
       UNION {FacesFrom(node.ch[i], Octant(range, i - 1), Append(path, i - 1), p) :
                i \in 1..8}
  ELSE {}

SiblingFaces(s, p) == FacesFrom(s.root, s.range, <<>>, p)

\* The leaves of a subtree that touch the plane p[a] from the side given
\* (their range ends there, or starts there) at the sample.
RECURSIVE LeavesAtFaceFrom(_, _, _, _, _, _)
LeavesAtFaceFrom(node, range, path, a, p, low) ==
  IF node.tag = "Internal"
  THEN UNION {LeavesAtFaceFrom(node.ch[i], Octant(range, i - 1), Append(path, i - 1),
                               a, p, low) : i \in 1..8}
  ELSE IF /\ IF low THEN range.origin[a] + range.size[a] = p[a]
                    ELSE range.origin[a] = p[a]
          /\ \A c \in (1..3) \ {a} :
               range.origin[c] <= p[c] /\ p[c] < range.origin[c] + range.size[c]
       THEN {path} ELSE {}

LeavesAtFace(s, q, a, p, low) ==
  LeavesAtFaceFrom(NodeAt(s.root, q), RangeAt(s.range, q), q, a, p, low)

\* C8: for siblings at depth d >= 1 of a dense tree and a sample on the face
\* they share: a call whose sample is aligned to the scale of depth d writes
\* both siblings; a call of the height of the tree (scale 1 at the leaves)
\* writes the two leaves adjacent to the face at the sample, aligned or not.
C8_FaceWritesBothSiblings ==
  IsStamp =>
    \A f \in SiblingFaces(pre, last.p) :
      LET d == Len(f.parent) + 1
          sd == ScaleAt(last.height, d)
          lowLeaves == LeavesAtFace(pre, Append(f.parent, f.i), f.a, last.p, TRUE)
          highLeaves == LeavesAtFace(pre, Append(f.parent, f.j), f.a, last.p, FALSE)
      IN  /\ (sd >= 1 /\ Aligned(last.p, sd)) =>
                {Append(f.parent, f.i), Append(f.parent, f.j)} \subseteq written
          /\ last.height = last.built =>
               /\ lowLeaves # {} /\ lowLeaves \subseteq written
               /\ highLeaves # {} /\ highLeaves \subseteq written

\* A sample on the face of two siblings at depth 1: aligned to the scale
\* there, both written; and unaligned to it, the two adjacent leaves written.
C8_Witness ==
  /\ IsStamp /\ pc = "stamped" /\ last.height = last.built
  /\ \E f \in SiblingFaces(pre, last.p) :
       /\ f.parent = <<>>
       /\ ~Aligned(last.p, ScaleAt(last.height, 1))
       /\ Append(f.parent, f.i) \notin written
       /\ \E l \in LeavesAtFace(pre, Append(f.parent, f.i), f.a, last.p, TRUE) :
            l \in written /\ Len(l) >= 2
  /\ \E f \in SiblingFaces(pre, last.p) :
       /\ Aligned(last.p, ScaleAt(last.height, Len(f.parent) + 1))
       /\ {Append(f.parent, f.i), Append(f.parent, f.j)} \subseteq written

\* Every Leaf of the subtree is at depth leafDepth with edge LeafSize, and
\* every node above that depth is Internal with 8 children.
RECURSIVE Dense(_, _, _, _)
Dense(node, range, depth, leafDepth) ==
  /\ node.tag = "Leaf" => depth = leafDepth /\ range.size = VecRepeat(LeafSize)
  /\ depth < leafDepth => node.tag = "Internal" /\ Len(node.ch) = 8
  /\ node.tag = "Internal" =>
       \A i \in 1..8 : Dense(node.ch[i], Octant(range, i - 1), depth + 1, leafDepth)

\* C12: the tree of create_empty_lods(H) is dense with its leaves of edge 32
\* at depth H-3, and a stamp made with the same H completes, having used at
\* every node it visited the scale 2^(H-3)/2^d: 1 at a Leaf, 2 or more at an
\* Internal node, never 0.
C12_DenseAndScaled ==
  /\ last.op = "create_empty_lods" => Dense(svo.root, svo.range, 0, last.height - 3)
  /\ (IsStamp /\ last.height = last.built) =>
       /\ pc = "stamped"
       /\ \A v \in last.scales :
            /\ v[2] = ScaleAt(last.height, Len(v[1]))
            /\ v[2] # 0
            /\ NodeAt(pre.root, v[1]).tag = "Leaf" => v[2] = 1
            /\ NodeAt(pre.root, v[1]).tag = "Internal" => v[2] >= 2

\* A stamp of height 6 on the tree of height 6 that visited the root, an
\* Internal node of depth 2 and a Leaf.
C12_Witness ==
  /\ IsStamp /\ pc = "stamped" /\ last.height = 6 /\ last.built = 6
  /\ <<<<>>, 8>> \in last.scales
  /\ \E v \in last.scales : Len(v[1]) = 2 /\ v[2] = 2
  /\ \E v \in last.scales : NodeAt(svo.root, v[1]).tag = "Leaf" /\ v[2] = 1

(***************************************************************************)
(* Claim of scenario "stamps".                                             *)
(***************************************************************************)
\* Same tag, same number of children, payload present in both or in
\* neither (and then with the same ranges and mapping), at every node.
RECURSIVE SameShape(_, _)
SameShape(a, b) ==
  /\ a.tag = b.tag
  /\ Len(a.ch) = Len(b.ch)
  /\ a.tag = "Internal" => Len(b.ch) = 8
  /\ a.v.some = b.v.some
  /\ a.v.outer = b.v.outer /\ a.v.inner = b.v.inner /\ a.v.mapping = b.v.mapping
  /\ \A i \in 1..Len(a.ch) : i <= Len(b.ch) => SameShape(a.ch[i], b.ch[i])

\* The paths of S whose node carries a payload.
WithPayload(root, S) == {q \in S : NodeAt(root, q).v.some}

\* C11: after any sequence of stamps the tree has the shape it started with:
\* same root range, same tags and children, payloads present exactly where
\* they were; a node without payload is passed over without error and the
\* nodes below it are still written.
C11_StampsKeepShape ==
  IsStamp =>
    /\ svo.range = pre.range
    /\ SameShape(pre.root, svo.root)
    /\ AllScalesPositive(pre, last.height) => pc = "tree"
    /\ pc = "tree" =>
         written = WithPayload(pre.root, Qualifying(pre, last.p, last.height, 1))

\* Two stamps done, the last of which passed over an Internal node without
\* payload that the sample qualifies for and wrote one of its children.
C11_Witness ==
  /\ IsStamp /\ pc = "tree" /\ last.n = 3
  /\ \E q \in written :
       \E k \in 0..(Len(q) - 1) :
         /\ ~NodeAt(pre.root, SubSeq(q, 1, k)).v.some
         /\ SubSeq(q, 1, k) \in Qualifying(pre, last.p, last.height, 1)
  /\ \E q \in Paths(svo.root) : NodeAt(svo.root, q) # NodeAt(pre.root, q)

(***************************************************************************)
(* Properties of the "ingest" scenario.                                    *)
(***************************************************************************)
Abs(x) == IF x < 0 THEN -x ELSE x

\* n is the integer nearest to t/2, the one away from zero on a tie.
IsNearestTiesAway(n, t) ==
  \/ 2 * n = t
  \/ Abs(2 * n - t) = 1 /\ Abs(2 * n) > Abs(t)

\* C10 as stated: each component x of a 'positions' entry is handed to the
\* material stamp as the integer nearest to x, ties away from zero.
C10_SnappedToNearest ==
  last.op = "ingest_position" =>
    \A a \in 1..3 : IsNearestTiesAway(last.p[a], last.raw[a])

\* C10, amended: each component x of a 'positions' entry is handed to the
\* material stamp as the integer nearest to x + 0.5, ties away from zero
\* (1.0 to 2, 0.5 to 1, -0.5 to 0, 0.0 to 1, -1.0 to -1).
C10_SnappedToNearestOfShifted ==
  last.op = "ingest_position" =>
    /\ \A a \in 1..3 : IsNearestTiesAway(last.p[a], last.raw[a] + 1)
    /\ \E k \in 1..Len(json.positions) : json.positions[k] = last.raw
    /\ LET r == SetMaterialAtAllLods(pre, last.p, IngestMaterial, json.height)
       IN  svo = r.svo /\ written = r.hits

\* The entry (0.0, -1.0, 31.5) has been stamped at (1, -1, 32) and the stamp
\* wrote at least one node.
C10_Witness ==
  /\ last.op = "ingest_position"
  /\ last.raw = <<0, -2, 63>>
  /\ last.p = <<1, -1, 32>>
  /\ written # {}
RECURSIVE HasPath(_, _)
HasPath(node, path) ==
  \/ path = <<>>
  \/ /\ node.tag = "Internal"
     /\ HasPath(node.ch[Head(path) + 1], Tail(path))

IsOffsetCall(c) == c.kind = "offset"

IsMaterialCall(c) == c.kind = "material"

\* The calls the document asks for, in the order claimed: one material stamp
\* per 'positions' entry, then one offset stamp per 'vertices' entry, then
\* the rescaling of the root range and the pruning.
ExpectedCalls ==
  [k \in 1..Len(json.positions) |->
     [kind |-> "material", p |-> PositionToLattice(json.positions[k]),
      value |-> IngestMaterial]]
  \o [k \in 1..Len(json.vertices) |->
     [kind |-> "offset", p |-> VertexToLattice(json.vertices[k]),
      value |-> VertexToOffset(json.vertices[k])]]
  \o <<[kind |-> "rescale"], [kind |-> "prune"]>>

\* No Leaf of the subtree holds a payload with an entry: the subtree is one
\* the pruning collapses to an empty marker.
RECURSIVE NoLiveLeaf(_)
NoLiveLeaf(node) ==
  IF node.tag = "Internal"
  THEN \A i \in 1..8 : NoLiveLeaf(node.ch[i])
  ELSE ~node.v.some \/ (node.v.mat = {} /\ node.v.off = {})

\* The tree with every node and its range as the stamps saw them.
StampedTree == IF pc = "done" THEN pre ELSE svo

\* The node at path q, where it still carries a payload, holds for position
\* p the offset o and no other.
HoldsOnly(q, p, o) ==
  (HasPath(svo.root, q) /\ NodeAt(svo.root, q).v.some) =>
    /\ <<p, o>> \in NodeAt(svo.root, q).v.off
    /\ \A e \in NodeAt(svo.root, q).v.off : e[1] = p => e[2] = o

\* The calls made are a prefix of the expected ones, and all of them when
\* ingestion has ended.
CallsInOrder ==
  /\ Len(calls) <= Len(ExpectedCalls)
  /\ calls = SubSeq(ExpectedCalls, 1, Len(calls))
  /\ pc = "done" => calls = ExpectedCalls

\* The node at path q is there, carries a payload and holds for position p
\* the offset o and no other.
Stores(q, p, o) ==
  /\ HasPath(svo.root, q)
  /\ NodeAt(svo.root, q).v.some
  /\ <<p, o>> \in NodeAt(svo.root, q).v.off
  /\ \A e \in NodeAt(svo.root, q).v.off : e[1] = p => e[2] = o

\* C13 as stated: every material stamp comes before any offset stamp and no
\* stamp after the rescaling or the pruning; and, also when ingestion has
\* ended, every node an offset stamp wrote stores for the position the
\* value of the last offset record for that position.
C13_OffsetsStoredAtEveryWrittenNode ==
  pc # "start" =>
    /\ CallsInOrder
    /\ LET oc == SelectSeq(calls, IsOffsetCall) IN
       \A k \in 1..Len(oc) :
         LET lastK == SetMax({j \in 1..Len(oc) : oc[j].p = oc[k].p}) IN
         \A q \in Qualifying(StampedTree, oc[k].p, json.height, 1) :
           Stores(q, oc[k].p, oc[lastK].value)

\* C13, amended: the calls made are a prefix of: all material stamps, then
\* all offset stamps, then rescale, then prune (all of them when ingestion
\* has ended); until the pruning every node an offset stamp wrote stores
\* for the position the value of the last offset record for that position,
\* not the default a material stamp seeded; after the pruning the same
\* holds at every such node that still carries a payload, and a written
\* node that carries none is one the pruning collapsed: it or a node above
\* it is an empty marker whose node before the pruning had no child with a
\* non-empty Leaf grid below it.
C13_MaterialsThenOffsets ==
  pc # "start" =>
    /\ CallsInOrder
    /\ LET oc == SelectSeq(calls, IsOffsetCall) IN
       \A k \in 1..Len(oc) :
         LET lastK == SetMax({j \in 1..Len(oc) : oc[j].p = oc[k].p}) IN
         \A q \in Qualifying(StampedTree, oc[k].p, json.height, 1) :
           /\ pc # "done" => Stores(q, oc[k].p, oc[lastK].value)
           /\ HoldsOnly(q, oc[k].p, oc[lastK].value)
           /\ oc[lastK].value # DefaultOffset =>
                ~(HasPath(svo.root, q) /\ <<oc[k].p, DefaultOffset>> \in NodeAt(svo.root, q).v.off)
           /\ (pc = "done" /\ ~Stores(q, oc[k].p, oc[lastK].value)) =>
                \E n \in 0..Len(q) :
                  /\ HasPath(svo.root, SubSeq(q, 1, n))
                  /\ IsEmptyMarker(NodeAt(svo.root, SubSeq(q, 1, n)))
                  /\ NoLiveLeaf(NodeAt(pre.root, SubSeq(q, 1, n)))

\* Ingestion has ended; two offset records named the same position, a
\* corner of a position a material stamp had seeded with the default; a
\* node both stamps wrote survives the pruning and stores the later value.
C13_Witness ==
  /\ pc = "done"
  /\ LET oc == SelectSeq(calls, IsOffsetCall)
         mc == SelectSeq(calls, IsMaterialCall)
     IN  /\ Len(oc) = 2 /\ oc[1].p = oc[2].p /\ oc[1].value # oc[2].value
         /\ \E m \in 1..Len(mc) :
              /\ oc[2].p \in Corners(mc[m].p)
              /\ \E q \in Qualifying(pre, oc[2].p, json.height, 1)
                          \cap Qualifying(pre, mc[m].p, json.height, 1) :
                   /\ HasPath(svo.root, q)
                   /\ <<oc[2].p, oc[2].value>> \in NodeAt(svo.root, q).v.off
                   /\ <<mc[m].p, mc[m].value>> \in NodeAt(svo.root, q).v.mat
====
